---- MODULE Spec2Model ----
(***************************************************************************)
(* A model of the "Save File (Advanced)" n8n node: the filename formatter, *)
(* the counter allocator and atomic writer (findAndWrite and its helpers), *)
(* and the execute loop that drives them, run by several workflow          *)
(* executions that share one directory.                                    *)
(*                                                                         *)
(* Strings are sequences of one-character strings, so that formatting,     *)
(* sanitising and the scan's regular expression are computed, not assumed. *)
(***************************************************************************)
EXTENDS Integers, Sequences, FiniteSets, TLC

\* ------------------------------------------------------------------ bounds

\* Number of workflow executions that run concurrently against the directory.
NumExecs == 3

\* Largest number of input items one execute call processes.
MaxItems == 4

\* findAndWrite's maxAttempts (discovery bound). The code's default is 10000;
\* the model runs the same code with a small value so that the bound is met.
MaxAttempts == 3

\* createFile's maxRetries (creation budget). The code's default is 100; the
\* model runs the same code with a small value so that the budget is met.
MaxRetries == 2

\* Number of I/O failures (other than ENOENT / EEXIST) the environment injects.
MaxFaults == 1

\* The number of input items of the execution that exercises the naming
\* configurations.
NamingItems == 2

\* ----------------------------------------------------------------- strings

DigitChars == <<"0", "1", "2", "3", "4", "5", "6", "7", "8", "9">>

IsDigit(c) == \E i \in 1..10 : DigitChars[i] = c

DigitValue(c) == (CHOOSE i \in 1..10 : DigitChars[i] = c) - 1

\* String(n) for a non-negative integer n.
RECURSIVE NumToString(_)
NumToString(n) ==
    IF n < 10 THEN <<DigitChars[n + 1]>>
    ELSE NumToString(n \div 10) \o <<DigitChars[(n % 10) + 1]>>

\* parseInt(s, 10) for a string of decimal digits.
RECURSIVE ParseInt(_)
ParseInt(s) ==
    IF Len(s) = 0 THEN 0
    ELSE 10 * ParseInt(SubSeq(s, 1, Len(s) - 1)) + DigitValue(s[Len(s)])

RECURSIVE Repeat(_, _)
Repeat(c, k) == IF k <= 0 THEN <<>> ELSE <<c>> \o Repeat(c, k - 1)

\* String.prototype.padStart(pad, "0")
PadStart(s, pad) == Repeat("0", pad - Len(s)) \o s

\* First index at which t occurs in s, 0 when it does not (indexOf + 1).
IndexOf(s, t) ==
    LET hits == {i \in 1..(Len(s) - Len(t) + 1) : SubSeq(s, i, i + Len(t) - 1) = t}
    IN  IF hits = {} THEN 0 ELSE CHOOSE i \in hits : \A j \in hits : i <= j

\* String.prototype.replaceAll(t, r): every occurrence, left to right.
RECURSIVE ReplaceAll(_, _, _)
ReplaceAll(s, t, r) ==
    LET i == IndexOf(s, t)
    IN  IF i = 0 THEN s
        ELSE SubSeq(s, 1, i - 1) \o r
             \o ReplaceAll(SubSeq(s, i + Len(t), Len(s)), t, r)

\* String.prototype.replace(t, r) with a string pattern: the first occurrence
\* only. (The replacement strings of the model hold no "$".)
ReplaceFirst(s, t, r) ==
    LET i == IndexOf(s, t)
    IN  IF i = 0 THEN s
        ELSE SubSeq(s, 1, i - 1) \o r \o SubSeq(s, i + Len(t), Len(s))

BaseToken == <<"{", "b", "a", "s", "e", "}">>

CounterToken == <<"{", "c", "o", "u", "n", "t", "e", "r", "}">>

\* The characters sanitizeFilename replaces: / \ ? % * : | " < >
ForbiddenChars == {"/", "\\", "?", "%", "*", ":", "|", "\"", "<", ">"}

IsSpace(c) == c \in {" ", "\t", "\n", "\r"}

RECURSIVE TrimStart(_)
TrimStart(s) ==
    IF Len(s) > 0 /\ IsSpace(s[1]) THEN TrimStart(Tail(s)) ELSE s

RECURSIVE TrimEnd(_)
TrimEnd(s) ==
    IF Len(s) > 0 /\ IsSpace(s[Len(s)]) THEN TrimEnd(SubSeq(s, 1, Len(s) - 1)) ELSE s

Trim(s) == TrimEnd(TrimStart(s))

sanitizeFilename(name) ==
    Trim([i \in 1..Len(name) |-> IF name[i] \in ForbiddenChars THEN "-" ELSE name[i]])

\* padCounter that keeps only the last pad digits of a longer counter.
padCounterTruncating(n, pad) ==
    LET str == NumToString(n)
    IN  IF pad <= 0 THEN str
        ELSE IF Len(str) > pad THEN SubSeq(str, Len(str) - pad + 1, Len(str))
        ELSE PadStart(str, pad)

padCounter(n, pad) ==
    IF pad <= 0 THEN NumToString(n) ELSE PadStart(NumToString(n), pad)

\* formatFilename that sanitizes the base alone, not the composed name.
formatFilenameBaseOnly(pattern, base, counter, pad, extension) ==
    LET counterStr == padCounter(counter, pad)
        name       == ReplaceFirst(ReplaceFirst(pattern, BaseToken, sanitizeFilename(base)),
                                   CounterToken, counterStr)
    IN  IF extension # <<>> THEN name \o <<".">> \o extension
        ELSE name

formatFilename(pattern, base, counter, pad, extension) ==
    LET counterStr    == padCounter(counter, pad)
        name          == ReplaceFirst(ReplaceFirst(pattern, BaseToken, base),
                                      CounterToken, counterStr)
        sanitizedName == sanitizeFilename(name)
    IN  IF extension # <<>> THEN sanitizedName \o <<".">> \o extension
        ELSE sanitizedName

\* ------------------------------------------------- the scan's regular expression

\* The characters the scan escapes with a backslash: . * + ? ^ $ { } ( ) | [ ] \
RegexSpecials == {".", "*", "+", "?", "^", "$", "{", "}", "(", ")", "|", "[", "]", "\\"}

\* s.replace(/[.*+?^${}()|[\]\\]/g, '\\$&')
RECURSIVE EscapeRegex(_)
EscapeRegex(s) ==
    IF Len(s) = 0 THEN <<>>
    ELSE (IF s[1] \in RegexSpecials THEN <<"\\", s[1]>> ELSE <<s[1]>>)
         \o EscapeRegex(Tail(s))

\* The source text of the capture group the scan puts in place of {counter}.
CounterGroup == <<"(", "\\", "d", "+", ")">>

\* The source text of the scan's regular expression, between ^ and $.
RegexSource(pattern, base, extension) ==
    LET sanitizedBase == sanitizeFilename(base)
        escapedBase   == EscapeRegex(sanitizedBase)
        escapedExt    == IF extension # <<>> THEN EscapeRegex(extension) ELSE <<>>
        regexPattern  == ReplaceFirst(ReplaceFirst(pattern, BaseToken, escapedBase),
                                      CounterToken, CounterGroup)
    IN  IF extension # <<>> THEN regexPattern \o <<"\\", ".">> \o escapedExt
        ELSE regexPattern

\* new RegExp(source), for the part of the syntax the model's patterns use:
\* \d is a digit, \c is the character c, . is any character, ( ) delimit the
\* capture group, + repeats the element before it, anything else is itself.
\* The result is a sequence of elements [kind, ch, plus, cap].
RECURSIVE CompileRegex(_, _, _)
CompileRegex(src, i, inGroup) ==
    IF i > Len(src) THEN <<>>
    ELSE IF src[i] = "(" THEN CompileRegex(src, i + 1, TRUE)
    ELSE IF src[i] = ")" THEN CompileRegex(src, i + 1, FALSE)
    ELSE
      LET esc  == src[i] = "\\" /\ i < Len(src)
          last == IF esc THEN i + 1 ELSE i
          kind == IF esc /\ src[i + 1] = "d" THEN "digit"
                  ELSE IF ~esc /\ src[i] = "." THEN "any"
                  ELSE "lit"
          plus == last < Len(src) /\ src[last + 1] = "+"
          elem == [kind |-> kind, ch |-> src[last], plus |-> plus, cap |-> inGroup]
      IN  <<elem>> \o CompileRegex(src, IF plus THEN last + 2 ELSE last + 1, inGroup)

ElemMatches(e, c) ==
    CASE e.kind = "digit" -> IsDigit(c)
      [] e.kind = "any"   -> c \notin {"\n", "\r"}
      [] OTHER            -> c = e.ch

NoMatch == [matched |-> FALSE, group |-> <<>>]

\* How many characters of s, from position j on, element e matches in a row.
RECURSIVE RunLength(_, _, _)
RunLength(e, s, j) ==
    IF j <= Len(s) /\ ElemMatches(e, s[j]) THEN 1 + RunLength(e, s, j + 1) ELSE 0

\* Backtracking match of elements i.. against s from position j, anchored at
\* the end of s; a repeated element is greedy (longest run first). `group` is
\* the text captured so far.
RECURSIVE MatchFrom(_, _, _, _, _)
MatchFrom(re, i, s, j, group) ==
    IF i > Len(re) THEN
        IF j = Len(s) + 1 THEN [matched |-> TRUE, group |-> group] ELSE NoMatch
    ELSE
      LET e        == re[i]
          taken(k) == MatchFrom(re, i + 1, s, j + k,
                                IF e.cap THEN group \o SubSeq(s, j, j + k - 1) ELSE group)
      IN  IF ~e.plus
          THEN IF j <= Len(s) /\ ElemMatches(e, s[j]) THEN taken(1) ELSE NoMatch
          ELSE LET good == {k \in 1..RunLength(e, s, j) : taken(k).matched}
               IN  IF good = {} THEN NoMatch
                   ELSE taken(CHOOSE k \in good : \A m \in good : m <= k)

\* file.match(fileRegex)
RegexMatch(re, file) == MatchFrom(re, 1, file, 1, <<>>)

\* One round of scanExistingCounters' loop: the counters that file adds to
\* existingCounters (none or one).
CountersOfFile(file, pattern, base, extension) ==
    LET fileRegex == CompileRegex(RegexSource(pattern, base, extension), 1, FALSE)
        match     == RegexMatch(fileRegex, file)
    IN  IF match.matched /\ match.group # <<>> THEN {ParseInt(match.group)} ELSE {}

\* findNextAvailableCounter: the cursor after the while loop.
RECURSIVE CursorAfter(_, _, _, _)
CursorAfter(existingCounters, counter, startCounter, maxAttempts) ==
    IF counter \in existingCounters /\ counter < startCounter + maxAttempts
    THEN CursorAfter(existingCounters, counter + 1, startCounter, maxAttempts)
    ELSE counter

\* findNextAvailableCounter with its loop bound off by one
\* (counter < startCounter + maxAttempts - 1).
findNextShortByOne(existingCounters, startCounter, maxAttempts) ==
    LET counter == CursorAfter(existingCounters, startCounter, startCounter,
                               maxAttempts - 1)
    IN  IF counter >= startCounter + maxAttempts - 1
        THEN [found |-> FALSE, counter |-> counter]
        ELSE [found |-> TRUE, counter |-> counter]

\* findNextAvailableCounter as "one past the highest counter in use".
findNextPastHighest(existingCounters, startCounter, maxAttempts) ==
    LET above   == {c \in existingCounters : c >= startCounter}
        counter == IF above = {} THEN startCounter
                   ELSE 1 + CHOOSE c \in above : \A d \in above : d <= c
    IN  IF counter >= startCounter + maxAttempts
        THEN [found |-> FALSE, counter |-> counter]
        ELSE [found |-> TRUE, counter |-> counter]

\* findNextAvailableCounter with > in place of >= in its final test.
findNextLaxTest(existingCounters, startCounter, maxAttempts) ==
    LET counter == CursorAfter(existingCounters, startCounter, startCounter, maxAttempts)
    IN  IF counter > startCounter + maxAttempts
        THEN [found |-> FALSE, counter |-> counter]
        ELSE [found |-> TRUE, counter |-> counter]

\* findNextAvailableCounter: found = FALSE stands for the ApplicationError it throws.
findNextAvailableCounter(existingCounters, startCounter, maxAttempts) ==
    LET counter == CursorAfter(existingCounters, startCounter, startCounter, maxAttempts)
    IN  IF counter >= startCounter + maxAttempts
        THEN [found |-> FALSE, counter |-> counter]
        ELSE [found |-> TRUE, counter |-> counter]


\* ------------------------------------------------------------ configurations

DefaultPattern == <<"{", "b", "a", "s", "e", "}", "_", "{", "c", "o", "u", "n", "t", "e", "r", "}">>

ColonPattern == <<"{", "b", "a", "s", "e", "}", ":", "{", "c", "o", "u", "n", "t", "e", "r", "}">>

\* The node's parameters of the README's examples, with a one-letter base and
\* extension: {base}_{counter}, counter start 1, two digits of padding.
CfgReport ==
    [pattern |-> DefaultPattern, base |-> <<"r">>, extension |-> <<"p">>,
     counterStart |-> 1, counterPadding |-> 2]

\* The same naming scheme without padding: its files are r_1.p, r_2.p, ...
CfgPlain ==
    [pattern |-> DefaultPattern, base |-> <<"r">>, extension |-> <<"p">>,
     counterStart |-> 1, counterPadding |-> 0]

\* A pattern whose literal text holds a character that sanitizeFilename
\* replaces: its files are r-01.p, r-02.p, ...
CfgColon ==
    [pattern |-> ColonPattern, base |-> <<"r">>, extension |-> <<"p">>,
     counterStart |-> 1, counterPadding |-> 2]

Configs == {CfgReport, CfgPlain, CfgColon}

\* A pattern without the {counter} token.
FixedPattern == <<"{", "b", "a", "s", "e", "}">>

\* A pattern whose literal text is a character the regular expression reads
\* as "any character".
DotPattern == <<"{", "b", "a", "s", "e", "}", ".", "{", "c", "o", "u", "n", "t", "e", "r", "}">>

\* A pattern that holds each token twice.
TwicePattern == BaseToken \o CounterToken \o <<"~">> \o BaseToken \o CounterToken

\* A pattern with surrounding blanks and a literal that sanitizeFilename replaces.
DirtyPattern == <<" ">> \o BaseToken \o <<":">> \o CounterToken \o <<" ">>

\* Every save of this configuration formats the one name r.p.
CfgFixed ==
    [pattern |-> FixedPattern, base |-> <<"r">>, extension |-> <<"p">>,
     counterStart |-> 1, counterPadding |-> 2]

\* Its files are r.01.p, r.02.p, ...
CfgDot ==
    [pattern |-> DotPattern, base |-> <<"r">>, extension |-> <<"p">>,
     counterStart |-> 1, counterPadding |-> 2]

CfgTwice ==
    [pattern |-> TwicePattern, base |-> <<"r">>, extension |-> <<"p">>,
     counterStart |-> 1, counterPadding |-> 2]

\* A base that reads as the {counter} token.
CfgTokenBase ==
    [pattern |-> DefaultPattern, base |-> CounterToken, extension |-> <<"p">>,
     counterStart |-> 1, counterPadding |-> 2]

\* A base with a character sanitizeFilename replaces, and no extension.
CfgDirty ==
    [pattern |-> DirtyPattern, base |-> <<"r", "<">>, extension |-> <<>>,
     counterStart |-> 1, counterPadding |-> 2]

\* The same with an extension.
CfgDirtyExt ==
    [pattern |-> DirtyPattern, base |-> <<"r", "<">>, extension |-> <<"p">>,
     counterStart |-> 1, counterPadding |-> 2]

\* Padding 3 from counter 7 on: the README's three-digit names.
CfgSeven ==
    [pattern |-> DefaultPattern, base |-> <<"r">>, extension |-> <<"p">>,
     counterStart |-> 7, counterPadding |-> 3]

\* Padding 1 from counter 9 on: the counters grow past the padding.
CfgLate ==
    [pattern |-> DefaultPattern, base |-> <<"r">>, extension |-> <<"p">>,
     counterStart |-> 9, counterPadding |-> 1]

NamingConfigs ==
    {CfgPlain, CfgFixed, CfgDot, CfgTwice, CfgTokenBase, CfgDirty, CfgDirtyExt,
     CfgSeven, CfgLate}

AllConfigs == Configs \cup NamingConfigs

LargestStart ==
    CHOOSE m \in {cfg.counterStart : cfg \in AllConfigs} :
        \A cfg \in AllConfigs : cfg.counterStart <= m

\* The counters a save of the model can reach: from 0 up to the largest
\* counterStart plus both budgets.
Counters == 0..(LargestStart + MaxAttempts + MaxAttempts + MaxRetries)

\* execute hands findAndWrite the sanitized base.
SanitizedBase(cfg) == sanitizeFilename(cfg.base)

\* formatFilename for a configuration, tabulated once over Counters.
NameTable ==
    [cfg \in AllConfigs |-> [c \in Counters |->
        formatFilename(cfg.pattern, SanitizedBase(cfg), c, cfg.counterPadding,
                       cfg.extension)]]

Name(cfg, c) == NameTable[cfg][c]

\* path.join(folder, filename) names the folder itself (or its parent) for
\* these filenames; every other filename is an entry of the folder.
NamesFolder(name) == name \in {<<>>, <<".">>, <<".", ".">>}

Execs == 1..NumExecs

\* The node parameters of one execute call, and the number of its input items.
Params ==
    [cfg : Configs, overwrite : BOOLEAN, createFolders : BOOLEAN,
     continueOnFail : BOOLEAN, nItems : 0..MaxItems]

\* The buffer of item i of execution p: two bytes that identify the item.
Payload(p, i) == <<p, i + 1>>

\* The content of a file that was in the directory before any execution ran.
OldContent == <<0>>

\* The files the directory may hold initially: files of CfgReport for the
\* counters up to one past the discovery bound, one file of CfgPlain, and
\* one file of no configuration.
InitNames ==
    {Name(CfgReport, c) : c \in 1..(MaxAttempts + 1)} \cup {Name(CfgPlain, 1), <<"x">>}

\* Every name an entry of the folder can have in the model.
\* The files the folder may hold initially when the naming configurations
\* are exercised: the first file of three naming schemes and one file of none.
NamingInitNames ==
    {Name(CfgFixed, 1), Name(CfgDot, 1), Name(CfgReport, 1), <<"x">>}

KnownNames ==
    InitNames \cup NamingInitNames \cup {Name(cfg, c) : cfg \in AllConfigs, c \in Counters}

\* CountersOfFile for a configuration, tabulated once over KnownNames.
ScanTable ==
    [cfg \in AllConfigs |-> [f \in KnownNames |->
        CountersOfFile(f, cfg.pattern, SanitizedBase(cfg), cfg.extension)]]

\* scanExistingCounters' loop over the listed names.
CountersIn(names, cfg) == UNION {ScanTable[cfg][f] : f \in names}

\* ------------------------------------------------------------------ errors

NoError == [kind |-> "none", base |-> <<>>, n |-> 0]

\* A filesystem error with the given code.
FsError(code) == [kind |-> code, base |-> <<>>, n |-> 0]

\* findNextAvailableCounter's ApplicationError: "Could not find free counter
\* after <maxAttempts> attempts starting from <startCounter>."
NoFreeCounter(maxAttempts) ==
    [kind |-> "AllocationExhausted", base |-> <<>>, n |-> maxAttempts]

\* The creation loop's error: "Could not find free filename for base <base>
\* after ... <n> ..." (n is maxRetries; maxAttempts in the older allocator).
NoFreeFilename(base, n) == [kind |-> "AllocationExhausted", base |-> base, n |-> n]

\* -------------------------------------------------------------------- state

NoHandle == <<>>

\* The local variables of one findAndWrite call. counter is the creation
\* loop's start (the probe loop's cursor in the older allocator), attempts the
\* loop index, handle the open FileHandle (a sequence of at most one name),
\* pending the error travelling through the finally block. scanned, snapshot
\* and tried record whether the scan returned, the counter set it returned and
\* the counters at which a create was attempted; the code does not read them.
NewSave(cfg) ==
    [counter |-> cfg.counterStart, attempts |-> 0, handle |-> NoHandle,
     pending |-> NoError, scanned |-> FALSE, snapshot |-> {}, tried |-> <<>>]

VARIABLES
    version,     \* which allocator runs: "scan" (scan, then retry) or "probe"
    dirExists,   \* whether the folder exists
    files,       \* name -> content, for the entries of the folder
    creator,     \* name -> <<execution, item>> that created it (<<0, 0>>: initial)
    faults,      \* I/O failures injected so far
    param,       \* execution -> its node parameters
    pc,          \* execution -> the await it is suspended at
    item,        \* execution -> index i of execute's loop
    save,        \* execution -> locals of its running findAndWrite
    returnData,  \* execution -> execute's returnData
    history      \* execution -> outcome of each save it finished

vars == <<version, dirExists, files, creator, faults, param, pc, item, save,
          returnData, history>>

\* Exists as it would be with flag 'w' in place of 'wx': only the folder itself
\* is in the way, an existing file is opened and truncated.
ExistsIgnoringFiles(name) == NamesFolder(name)

\* Whether fs.open(path, 'wx') finds the path taken.
Exists(name) == NamesFolder(name) \/ name \in DOMAIN files

\* WriteAt0 for a write that stops one byte short and reports success.
WriteAllButLast(old, data) ==
    IF Len(data) = 0 THEN old ELSE [i \in 1..(Len(data) - 1) |-> data[i]]

\* A single write of data at offset 0 of a file holding old.
WriteAt0(old, data) == data \o SubSeq(old, Len(data) + 1, Len(old))

\* What a failed write may have written of data: any proper prefix.
Partial(data) == {SubSeq(data, 1, k) : k \in 0..(Len(data) - 1)}

\* Whether the environment may make the next filesystem call fail with an
\* error of its own (EACCES, ENOSPC, EIO, ...; "EIO" stands for them all).
MayFail == faults < MaxFaults

\* The outcomes of fs.readdir(folder).
ReaddirResults ==
    (IF dirExists THEN {[err |-> "none", names |-> DOMAIN files]}
     ELSE {[err |-> "ENOENT", names |-> {}]})
    \cup (IF MayFail THEN {[err |-> "EIO", names |-> {}]} ELSE {})

\* The outcomes of fs.open(fullPath, 'wx').
OpenResults(name) ==
    (IF ~dirExists THEN {"ENOENT"} ELSE IF Exists(name) THEN {"EEXIST"} ELSE {"none"})
    \cup (IF MayFail THEN {"EIO"} ELSE {})

\* The outcomes of fs.writeFile's open with flag 'w'.
OpenForWriteResults(name) ==
    (IF ~dirExists THEN {"ENOENT"} ELSE IF NamesFolder(name) THEN {"EISDIR"} ELSE {"none"})
    \cup (IF MayFail THEN {"EIO"} ELSE {})

\* The outcomes of a call that fails only when the environment makes it.
PlainResults == {"none"} \cup (IF MayFail THEN {"EIO"} ELSE {})

Charge(err) == faults' = IF err = "EIO" THEN faults + 1 ELSE faults

\* ScanSwallows for a scan that rethrows every listing error.
ScanSwallowsNothing(code) == FALSE

\* scanExistingCounters' catch: the listing error it swallows.
ScanSwallows(code) == code = "ENOENT"

\* CreateRetries for a catch that goes on to the next counter on any error.
CreateRetriesOnAnyError(code) == TRUE

\* createFile's catch (and the older findAndWrite's): the error it retries on.
CreateRetries(code) == code = "EEXIST"

\* SaveStep without the overwrite branch.
SaveStepAlwaysAllocates(par) == IF version = "scan" THEN "scan" ELSE "open"

\* findAndWrite's first await.
SaveStep(par) ==
    IF par.overwrite THEN "ow_open"
    ELSE IF version = "scan" THEN "scan" ELSE "open"

\* execute's first await for an item.
FirstStep(par) == IF par.createFolders THEN "mkdir" ELSE SaveStep(par)

\* Candidate for a loop that steps over a counter after each collision.
CandidateSkipping(s) ==
    IF version = "scan" THEN s.counter + 2 * s.attempts ELSE s.counter + s.attempts

\* The counter the next create attempt formats: startCounter + attempts in
\* createFile, the cursor in the older findAndWrite.
Candidate(s) == IF version = "scan" THEN s.counter + s.attempts ELSE s.counter

\* Budget with the loop bound off by one (attempts < maxRetries - 1).
BudgetOffByOne == (IF version = "scan" THEN MaxRetries ELSE MaxAttempts) - 1

\* Budget with the discovery bound handed to the creation loop.
BudgetFromDiscovery == MaxAttempts

\* The number of create attempts one call may make: createFile's maxRetries,
\* the older findAndWrite's maxAttempts.
Budget == IF version = "scan" THEN MaxRetries ELSE MaxAttempts

\* Released for a finally block that leaves the handle open.
NotReleased(s) == s

\* await filehandle.close(): the locals once the handle is released. The
\* descriptor is gone when close() returns, also when it reports an error.
Released(s) == [s EXCEPT !.handle = NoHandle]

\* Continues for a loop that goes on to the next item whatever happened.
ContinuesAlways(par, ok) == TRUE

\* execute's loop goes on to the next item: the save returned, or it threw
\* and continueOnFail() is on.
Continues(par, ok) == ok \/ par.continueOnFail

\* execute's continuation when the item's save has returned (ok, with its
\* path) or thrown (~ok, with its error): push the entry and go on with the
\* next item, or rethrow when continueOnFail is off. s is the call's final locals.
Complete(p, ok, path, error, s) ==
    LET par == param[p]
    IN  /\ history' = [history EXCEPT ![p] = Append(@,
                         [item |-> item[p], ok |-> ok, path |-> path, error |-> error,
                          overwrite |-> par.overwrite, scanned |-> s.scanned,
                          snapshot |-> s.snapshot, candidate |-> s.counter,
                          tried |-> s.tried, handle |-> s.handle,
                          pending |-> s.pending])]
        /\ save' = [save EXCEPT ![p] = NewSave(par.cfg)]
        /\ IF Continues(par, ok)
           THEN /\ returnData' = [returnData EXCEPT ![p] = Append(@,
                                    [item |-> item[p], ok |-> ok, path |-> path,
                                     error |-> error])]
                /\ item' = [item EXCEPT ![p] = @ + 1]
                /\ pc' = [pc EXCEPT ![p] = IF item[p] + 1 < par.nItems
                                            THEN FirstStep(par) ELSE "returned"]
           ELSE /\ pc' = [pc EXCEPT ![p] = "aborted"]
                /\ UNCHANGED <<returnData, item>>

Throw(p, error, s) == Complete(p, FALSE, <<>>, error, s)

Return(p, path, s) == Complete(p, TRUE, path, NoError, s)

\* ------------------------------------------------------------------ actions

\* await fs.mkdir(folderPath, { recursive: true })
Mkdir(p) ==
    /\ pc[p] = "mkdir"
    /\ \E err \in PlainResults :
          /\ Charge(err)
          /\ IF err = "none"
             THEN /\ dirExists' = TRUE
                  /\ pc' = [pc EXCEPT ![p] = SaveStep(param[p])]
                  /\ UNCHANGED <<item, save, returnData, history>>
             ELSE /\ Throw(p, FsError(err), save[p])
                  /\ UNCHANGED dirExists
    /\ UNCHANGED <<version, files, creator, param>>

\* scanExistingCounters and findNextAvailableCounter: the readdir, and the
\* synchronous code up to createFile's first fs.open.
Scan(p) ==
    /\ pc[p] = "scan"
    /\ \E r \in ReaddirResults :
          /\ Charge(r.err)
          /\ IF r.err # "none" /\ ~ScanSwallows(r.err)
             THEN Throw(p, FsError(r.err), save[p])
             ELSE LET cfg      == param[p].cfg
                      existing == IF r.err = "none" THEN CountersIn(r.names, cfg) ELSE {}
                      next     == findNextAvailableCounter(existing, cfg.counterStart,
                                                           MaxAttempts)
                      s        == [save[p] EXCEPT !.scanned = TRUE, !.snapshot = existing,
                                                  !.counter = next.counter]
                  IN  IF next.found
                      THEN /\ save' = [save EXCEPT ![p] = s]
                           /\ pc' = [pc EXCEPT ![p] = "open"]
                           /\ UNCHANGED <<item, returnData, history>>
                      ELSE Throw(p, NoFreeCounter(MaxAttempts), s)
    /\ UNCHANGED <<version, dirExists, files, creator, param>>

\* await fs.open(fullPath, 'wx'), and the catch around it.
Open(p) ==
    /\ pc[p] = "open"
    /\ LET c    == Candidate(save[p])
           name == Name(param[p].cfg, c)
           s    == [save[p] EXCEPT !.tried = Append(@, c)]
       IN  \E err \in OpenResults(name) :
              /\ Charge(err)
              /\ IF err = "none"
                 THEN /\ files' = (name :> <<>>) @@ files
                      /\ creator' = (name :> <<p, item[p]>>) @@ creator
                      /\ save' = [save EXCEPT ![p] = [s EXCEPT !.handle = <<name>>]]
                      /\ pc' = [pc EXCEPT ![p] = "write"]
                      /\ UNCHANGED <<item, returnData, history>>
                 ELSE /\ UNCHANGED <<files, creator>>
                      /\ IF ~CreateRetries(err)
                         THEN Throw(p, FsError(err), s)
                         ELSE IF s.attempts + 1 < Budget
                         THEN /\ save' = [save EXCEPT ![p] =
                                    [s EXCEPT !.attempts = @ + 1,
                                              !.counter = IF version = "scan" THEN @
                                                          ELSE @ + 1]]
                              /\ UNCHANGED <<pc, item, returnData, history>>
                         ELSE Throw(p, NoFreeFilename(param[p].cfg.base, Budget),
                                    [s EXCEPT !.attempts = @ + 1])
    /\ UNCHANGED <<version, dirExists, param>>

\* await filehandle.writeFile(buffer)
Write(p) ==
    /\ pc[p] = "write"
    /\ LET name == save[p].handle[1]
           data == Payload(p, item[p])
       IN  \E err \in PlainResults :
              /\ Charge(err)
              /\ IF err = "none"
                 THEN /\ files' = [files EXCEPT ![name] = WriteAt0(@, data)]
                      /\ UNCHANGED save
                 ELSE /\ \E part \in Partial(data) :
                            files' = [files EXCEPT ![name] = WriteAt0(@, part)]
                      /\ save' = [save EXCEPT ![p].pending = FsError(err)]
    /\ pc' = [pc EXCEPT ![p] = "close"]
    /\ UNCHANGED <<version, dirExists, creator, param, item, returnData, history>>

\* finally { await filehandle.close() }, then the return or the rethrow.
Close(p) ==
    /\ pc[p] = "close"
    /\ LET name == save[p].handle[1]
           s    == Released(save[p])
       IN  \E err \in PlainResults :
              /\ Charge(err)
              /\ IF err # "none" THEN Throw(p, FsError(err), s)
                 ELSE IF s.pending # NoError THEN Throw(p, s.pending, s)
                 ELSE Return(p, name, s)
    /\ UNCHANGED <<version, dirExists, files, creator, param>>

\* await fs.writeFile(fullPath, buffer), its open with flag 'w'.
OwOpen(p) ==
    /\ pc[p] = "ow_open"
    /\ LET name == Name(param[p].cfg, save[p].counter)
       IN  \E err \in OpenForWriteResults(name) :
              /\ Charge(err)
              /\ IF err = "none"
                 THEN /\ files' = (name :> <<>>) @@ files
                      /\ creator' = IF name \in DOMAIN files THEN creator
                                    ELSE (name :> <<p, item[p]>>) @@ creator
                      /\ save' = [save EXCEPT ![p].handle = <<name>>]
                      /\ pc' = [pc EXCEPT ![p] = "ow_write"]
                      /\ UNCHANGED <<item, returnData, history>>
                 ELSE /\ Throw(p, FsError(err), save[p])
                      /\ UNCHANGED <<files, creator>>
    /\ UNCHANGED <<version, dirExists, param>>

\* fs.writeFile's write and close, then the return.
OwWrite(p) ==
    /\ pc[p] = "ow_write"
    /\ LET name == save[p].handle[1]
           data == Payload(p, item[p])
           s    == [save[p] EXCEPT !.handle = NoHandle]
       IN  \E err \in PlainResults :
              /\ Charge(err)
              /\ IF err = "none"
                 THEN /\ files' = [files EXCEPT ![name] = WriteAt0(@, data)]
                      /\ Return(p, name, s)
                 ELSE /\ \E part \in Partial(data) :
                            files' = [files EXCEPT ![name] = WriteAt0(@, part)]
                      /\ Throw(p, FsError(err), s)
    /\ UNCHANGED <<version, dirExists, creator, param>>

\* ---------------------------------------------------------- specifications

\* The state after construction: the folder, with any of the initial files,
\* or no folder; every execution at the first await of its first item.
InitWith(versions, paramSets, folders) ==
    /\ version \in versions
    /\ param \in paramSets
    /\ \E d \in folders :
          /\ dirExists = d.exists
          /\ files = [f \in d.names |-> OldContent]
          /\ creator = [f \in d.names |-> <<0, 0>>]
    /\ faults = 0
    /\ pc = [p \in Execs |-> IF param[p].nItems > 0 THEN FirstStep(param[p])
                                ELSE "returned"]
    /\ item = [p \in Execs |-> 0]
    /\ save = [p \in Execs |-> NewSave(param[p].cfg)]
    /\ returnData = [p \in Execs |-> <<>>]
    /\ history = [p \in Execs |-> <<>>]

Folders ==
    {[exists |-> TRUE, names |-> ns] : ns \in SUBSET InitNames}
    \cup {[exists |-> FALSE, names |-> {}]}

\* An execution with no input items.
Idle == [cfg |-> CfgReport, overwrite |-> FALSE, createFolders |-> FALSE,
         continueOnFail |-> TRUE, nItems |-> 0]

\* One execution at a time: execution 1 processes MaxItems items, with any
\* node parameters, and no other execution runs.
SeqParams ==
    {[p \in Execs |-> IF p = 1 THEN q ELSE Idle] : q \in {r \in Params : r.nItems = MaxItems}}

InitSeq == InitWith({"scan", "probe"}, SeqParams, Folders)

NextSeq ==
    \E p \in Execs :
        \/ Mkdir(p)
        \/ Scan(p)
        \/ Open(p)
        \/ Write(p)
        \/ Close(p)
        \/ OwOpen(p)
        \/ OwWrite(p)

SpecSeq == InitSeq /\ [][NextSeq]_vars

\* Concurrent non-overwrite saves: the first k executions (k >= 1) each save
\* one item into the existing folder; they share one configuration, or all
\* but execution 1 have CfgReport.
RaceParams ==
    {[p \in Execs |-> IF p <= t[1] THEN [cfg |-> IF p = 1 \/ t[3] THEN t[2] ELSE CfgReport,
                                         overwrite |-> FALSE, createFolders |-> FALSE,
                                         continueOnFail |-> TRUE, nItems |-> 1]
                      ELSE Idle] :
        t \in Execs \X Configs \X BOOLEAN}

\* The folder exists and holds any of the files of counter 1.
RaceFolders ==
    {[exists |-> TRUE, names |-> ns] :
        ns \in SUBSET {Name(CfgReport, 1), Name(CfgPlain, 1)}}

InitRace == InitWith({"scan", "probe"}, RaceParams, RaceFolders)

NextRace ==
    \E p \in Execs :
        \/ Scan(p)
        \/ Open(p)
        \/ Write(p)
        \/ Close(p)

SpecRace == InitRace /\ [][NextRace]_vars

\* One execution at a time with a naming configuration: execution 1
\* processes NamingItems items, with any options.
NamingParams ==
    {[p \in Execs |-> IF p = 1 THEN [cfg |-> c, overwrite |-> t[1], createFolders |-> t[2],
                                     continueOnFail |-> t[3], nItems |-> NamingItems]
                      ELSE Idle] :
        c \in NamingConfigs, t \in BOOLEAN \X BOOLEAN \X BOOLEAN}

NamingFolders ==
    {[exists |-> TRUE, names |-> ns] : ns \in SUBSET NamingInitNames}
    \cup {[exists |-> FALSE, names |-> {}]}

InitNaming == InitWith({"scan", "probe"}, NamingParams, NamingFolders)

SpecNaming == InitNaming /\ [][NextSeq]_vars
\* ------------------------------------------------------------------ claims

\* The executions that save at least one item.
Calls == {p \in Execs : param[p].nItems > 0}

\* The folder held no file before the executions ran.
InitiallyEmpty == \A f \in DOMAIN creator : creator[f] # <<0, 0>>

\* Every execution has returned or aborted.
AllDone == \A p \in Execs : pc[p] \in {"returned", "aborted"}

\* The executions that save share pattern and base.
SameNaming ==
    \A p, q \in Calls : /\ param[p].cfg.pattern = param[q].cfg.pattern
                        /\ param[p].cfg.base = param[q].cfg.base

\* Some finished save ended with AllocationExhausted.
SomeExhausted ==
    \E p \in Execs : \E k \in DOMAIN history[p] :
        history[p][k].error.kind = "AllocationExhausted"

\* C1: no two non-overwrite saves that return successfully return the same
\* path, and the file at a returned path was created by the call that
\* returned it, in every interleaving and whatever the folder held initially.
C1_DistinctPaths ==
    \A p, q \in Execs : \A k \in DOMAIN history[p], l \in DOMAIN history[q] :
        LET a == history[p][k]
            b == history[q][l]
        IN  (a.ok /\ ~a.overwrite) =>
               /\ a.path \in DOMAIN files
               /\ creator[a.path] = <<p, a.item>>
               /\ (b.ok /\ ~b.overwrite /\ <<p, k>> # <<q, l>>) => a.path # b.path

\* C1's case: a call whose scan missed another call's file met it at its
\* first create attempt, moved on, and both calls returned.
C1_RaceResolved ==
    /\ version = "scan"
    /\ \E p, q \in Execs :
          /\ p # q
          /\ Len(history[p]) = 1 /\ Len(history[q]) = 1
          /\ history[p][1].ok /\ history[q][1].ok
          /\ Len(history[p][1].tried) = 2
          /\ history[q][1].path = Name(param[p].cfg, history[p][1].tried[1])

C3_NoClobber ==
    [][\A f \in DOMAIN files :
          /\ f \in DOMAIN files'
          /\ files'[f] # files[f] =>
                \E p \in Execs : /\ pc[p] = "write" /\ pc'[p] = "close"
                                 /\ save[p].handle = <<f>>
                                 /\ creator[f] = <<p, item[p]>>]_vars

\* C3's case: a call attempted to create at the path of a file another call
\* had written, and that file still holds the other call's payload.
C3_CollisionLeftFileIntact ==
    \E p, q \in Execs :
        /\ p # q
        /\ Len(history[q]) = 1 /\ history[q][1].ok
        /\ files[history[q][1].path] = Payload(q, 0)
        /\ \E j \in DOMAIN save[p].tried :
              Name(param[p].cfg, save[p].tried[j]) = history[q][1].path
        /\ pc[p] = "close"

\* ----------------------------------------------------- one execution at a time

\* The save of entry h of execution p created a file.
Created(p, h) == \E f \in DOMAIN creator : creator[f] = <<p, h.item>>

\* The scan reads back, as counter c, every name the formatter gives counter c.
Recognised(cfg) == \A c \in Counters : ScanTable[cfg][Name(cfg, c)] = {c}

\* The number of successive saves into an empty folder that can succeed: the
\* discovery bound, or the creation budget when the scan cannot see the
\* files the formatter names.
SeqLimit(cfg) ==
    IF version = "scan" /\ ~Recognised(cfg) THEN MaxRetries ELSE MaxAttempts

\* Execution 1 saves without overwrite into a folder that exists and was
\* empty, and no filesystem call has failed on its own.
SeqFromEmpty ==
    /\ ~param[1].overwrite /\ InitiallyEmpty /\ dirExists /\ faults = 0

Occupied(names, cfg, c) == c \in CountersIn(names, cfg) \/ Name(cfg, c) \in names

\* The smallest counter from counterStart on that is not taken (with the
\* counters of the model, there is one).
MinFree(names, cfg) ==
    CHOOSE c \in Counters :
        /\ c >= cfg.counterStart /\ ~Occupied(names, cfg, c)
        /\ \A d \in cfg.counterStart..(c - 1) : Occupied(names, cfg, d)

C6_OverwriteInPlace ==
    param[1].overwrite =>
        LET cfg  == param[1].cfg
            name == Name(cfg, cfg.counterStart)
            n    == Len(history[1])
        IN  /\ \A k \in DOMAIN history[1] :
                  LET h == history[1][k]
                  IN  /\ ~h.scanned /\ h.tried = <<>> /\ h.candidate = cfg.counterStart
                      /\ h.ok => h.path = name
            /\ \A f \in DOMAIN creator : creator[f] # <<0, 0>> => f = name
            /\ (n > 0 /\ history[1][n].ok /\ pc[1] # "ow_write") =>
                  files[name] = Payload(1, history[1][n].item)

\* C6's case: two overwrite saves in a row into the empty folder returned;
\* one file is there and it holds the second payload.
C6_SecondPayloadWins ==
    /\ param[1].overwrite /\ InitiallyEmpty
    /\ Len(history[1]) = 2 /\ history[1][1].ok /\ history[1][2].ok
    /\ history[1][1].path = history[1][2].path
    /\ DOMAIN files = {history[1][2].path}
    /\ files[history[1][2].path] = Payload(1, 1)

\* The counters counterStart .. counterStart + maxAttempts - 1.
DiscoveryRange(cfg) == cfg.counterStart..(cfg.counterStart + MaxAttempts - 1)

\* C7: a save whose scan finds all of counterStart .. counterStart +
\* maxAttempts - 1 occupied fails with AllocationExhausted without a create
\* attempt and without creating a file.
C7_DiscoveryExhausted ==
    \A p \in Execs :
        /\ ~(save[p].scanned /\ DiscoveryRange(param[p].cfg) \subseteq save[p].snapshot)
        /\ \A k \in DOMAIN history[p] :
              LET h == history[p][k]
              IN  (h.scanned /\ DiscoveryRange(param[p].cfg) \subseteq h.snapshot) =>
                     /\ ~h.ok
                     /\ h.error = NoFreeCounter(MaxAttempts)
                     /\ h.tried = <<>>
                     /\ ~Created(p, h)

\* C7's case: the scan found the whole range occupied, the counter after it
\* was free, and the save failed.
C7_RangeFullNextFree ==
    \E k \in DOMAIN history[1] :
        LET h   == history[1][k]
            cfg == param[1].cfg
        IN  /\ h.scanned /\ ~h.ok
            /\ DiscoveryRange(cfg) \subseteq h.snapshot
            /\ cfg.counterStart + MaxAttempts \notin h.snapshot
            /\ Name(cfg, cfg.counterStart + MaxAttempts) \notin DOMAIN files

\* The creation loop of a call of execution p with locals or entry h (its
\* scan returned): the counters tried are candidate, candidate + 1, ... in
\* order, at most maxRetries of them, and each one before the last met a file
\* that is still there and is not this call's.
LoopInOrder(p, h, it) ==
    /\ Len(h.tried) <= MaxRetries
    /\ \A j \in DOMAIN h.tried : h.tried[j] = h.candidate + j - 1
    /\ \A j \in 1..(Len(h.tried) - 1) :
          LET f == Name(param[p].cfg, h.tried[j])
          IN  f \in DOMAIN files /\ creator[f] # <<p, it>>

\* C8: in the scan-then-retry allocator the creation loop tries the
\* candidate and its successors in order, at most maxRetries of them; a call
\* that returns created the file of the last counter it tried; a call whose
\* attempts all met a file fails with AllocationExhausted, naming the base
\* and maxRetries, and created nothing.
C8_CreationLoop ==
    version = "scan" =>
        \A p \in Execs :
            /\ LoopInOrder(p, [tried |-> save[p].tried, candidate |-> save[p].counter],
                           item[p])
            /\ \A k \in DOMAIN history[p] :
                  LET h == history[p][k]
                      f == Name(param[p].cfg, h.tried[Len(h.tried)])
                  IN  /\ LoopInOrder(p, h, h.item)
                      /\ h.ok => h.path = f /\ creator[f] = <<p, h.item>>
                      /\ (~h.ok /\ h.tried # <<>> /\ h.error.kind = "AllocationExhausted") =>
                            /\ Len(h.tried) = MaxRetries
                            /\ h.error = NoFreeFilename(param[p].cfg.base, MaxRetries)
                            /\ f \in DOMAIN files
                            /\ ~Created(p, h)
                      /\ (~h.ok /\ Len(h.tried) = MaxRetries /\ ~Created(p, h)
                          /\ h.error.kind \notin {"EIO", "ENOENT"}) =>
                            h.error.kind = "AllocationExhausted"

\* C8's case: a call used its maxRetries attempts, each met a file its scan
\* had not seen, and it failed; maxRetries is not the discovery bound.
C8_RetriesExhausted ==
    /\ version = "scan" /\ MaxRetries # MaxAttempts
    /\ \E p \in Execs : \E k \in DOMAIN history[p] :
          LET h == history[p][k]
          IN  /\ ~h.ok /\ Len(h.tried) = MaxRetries
              /\ h.error = NoFreeFilename(param[p].cfg.base, MaxRetries)
              /\ \A j \in DOMAIN h.tried : h.tried[j] \notin h.snapshot

\* The step ends the running save of execution p with an error of this kind,
\* the counters tried being these.
EndsWith(p, kind, tried) ==
    /\ Len(history'[p]) = Len(history[p]) + 1
    /\ LET h == history'[p][Len(history'[p])]
       IN  ~h.ok /\ h.error.kind = kind /\ h.tried = tried
    /\ pc'[p] # "open"
       \/ (param[p].continueOnFail /\ item'[p] = item[p] + 1)

\* C9: a create attempt that fails with an error other than EEXIST ends the
\* call with that error at once; a payload write that fails leads to the
\* close and then ends the call with the write's error; no further counter
\* is tried.
C9_FailFast ==
    [][\A p \in Execs :
          /\ (pc[p] = "open" /\ faults' # faults) =>
                EndsWith(p, "EIO", Append(save[p].tried, Candidate(save[p])))
          /\ (pc[p] = "open" /\ faults' = faults /\ ~dirExists /\ save'[p] # save[p]) =>
                EndsWith(p, "ENOENT", Append(save[p].tried, Candidate(save[p])))
          /\ (pc[p] = "write" /\ faults' # faults) =>
                /\ pc'[p] = "close"
                /\ save'[p] = [save[p] EXCEPT !.pending = FsError("EIO")]
          /\ (pc[p] = "close" /\ save[p].pending # NoError /\ pc'[p] # pc[p]) =>
                EndsWith(p, save[p].pending.kind, save[p].tried)]_vars

\* C9's case: a call failed with an I/O error at a create attempt that was
\* not its first, with the next counter free.
C9_FailedMidLoop ==
    \E k \in DOMAIN history[1] :
        LET h == history[1][k]
        IN  /\ ~h.ok /\ h.error.kind = "EIO" /\ Len(h.tried) = 2
            /\ ~Created(1, h)
            /\ Name(param[1].cfg, h.tried[2] + 1) \notin DOMAIN files

\* C10: in the scan-then-retry allocator a save whose scan did not return
\* failed with the listing's error before any create attempt; a save into a
\* folder that does not exist scans the empty set, makes one create attempt
\* at counterStart, fails (with ENOENT unless the environment failed the
\* call) and creates nothing.
C10_MissingFolder ==
    (version = "scan" /\ ~param[1].overwrite) =>
        /\ ~dirExists => DOMAIN files = {}
        /\ \A k \in DOMAIN history[1] :
              LET h   == history[1][k]
                  cfg == param[1].cfg
              IN  /\ ~h.scanned =>
                        ~h.ok /\ h.error.kind = "EIO" /\ h.tried = <<>> /\ ~Created(1, h)
                  /\ (~dirExists /\ h.scanned) =>
                        /\ ~h.ok
                        /\ h.snapshot = {} /\ h.candidate = cfg.counterStart
                        /\ h.tried = <<cfg.counterStart>>
                        /\ h.error.kind \in {"ENOENT", "EIO"}
                        /\ faults = 0 => h.error = FsError("ENOENT")

\* C10's case: the folder does not exist, the scan returned the empty set,
\* and the save failed with ENOENT at its only create attempt.
C10_FailedAtFirstCreate ==
    /\ version = "scan" /\ ~dirExists /\ ~param[1].overwrite
    /\ \E k \in DOMAIN history[1] :
          LET h == history[1][k]
          IN  /\ h.scanned /\ h.snapshot = {}
              /\ h.tried = <<param[1].cfg.counterStart>>
              /\ h.error = FsError("ENOENT")

\* ------------------------------------------------------- payload and handles

\* C11: whenever a non-overwrite save has returned, the file at the returned
\* path exists and holds exactly the payload of that call, in every
\* interleaving of concurrent non-overwrite saves.
C11_ReturnedPayloadIntact ==
    \A p \in Execs : \A k \in DOMAIN history[p] :
        LET h == history[p][k]
        IN  (h.ok /\ ~h.overwrite) =>
               /\ h.path \in DOMAIN files
               /\ files[h.path] = Payload(p, h.item)
               /\ files[h.path] # <<>>

\* C11's case: two concurrent calls have returned, one of them after losing
\* a create race, a third call's write failed, and each returned path holds
\* its own call's payload.
C11_BothPayloadsOnDisk ==
    \E p, q, r \in Execs :
        /\ p # q /\ p # r /\ q # r
        /\ Len(history[p]) = 1 /\ Len(history[q]) = 1 /\ Len(history[r]) = 1
        /\ history[p][1].ok /\ history[q][1].ok
        /\ Len(history[p][1].tried) > 1
        /\ files[history[p][1].path] = Payload(p, 0)
        /\ files[history[q][1].path] = Payload(q, 0)
        /\ ~history[r][1].ok /\ history[r][1].error.kind = "EIO"
        /\ Created(r, history[r][1])

\* The steps at which an execution holds the handle of its atomic create.
HoldsHandle(p) == pc[p] \in {"write", "close", "ow_write"}

\* C12: a save holds an open handle only between its successful open and its
\* close; at the moment a save returns or fails its handle has been
\* released, whatever the number of its retries.
C12_HandleReleased ==
    \A p \in Execs :
        /\ ~HoldsHandle(p) => save[p].handle = NoHandle
        /\ \A k \in DOMAIN history[p] : history[p][k].handle = NoHandle

\* C12's case: a call whose create succeeded after a retry and whose payload
\* write then failed has ended with the write's error.
C12_ClosedAfterFailedWrite ==
    \E p \in Execs : \E k \in DOMAIN history[p] :
        LET h == history[p][k]
        IN  /\ ~h.ok /\ ~h.overwrite /\ h.error.kind = "EIO"
            /\ Len(h.tried) > 1
            /\ Created(p, h)
            /\ pc[p] = "returned"

\* ------------------------------------------------------------------- naming

\* The pattern holds the {counter} token.
HasCounterToken(cfg) == IndexOf(cfg.pattern, CounterToken) # 0

\* Execution 1 saves without overwrite under a pattern without {counter}.
FixedName == ~param[1].overwrite /\ ~HasCounterToken(param[1].cfg)

\* C13 as stated: under a pattern without {counter}, a non-overwrite save
\* that finds its one filename taken ends by replacing the file and
\* succeeding, so that (no filesystem call failing on its own) every save
\* returns and the file holds the payload of the latest one.
C13_ImplicitOverwrite ==
    (FixedName /\ dirExists /\ faults = 0) =>
        \A k \in DOMAIN history[1] :
            /\ history[1][k].ok
            /\ k = Len(history[1]) => files[history[1][k].path] = Payload(1, history[1][k].item)

\* C13 amended: under a pattern without {counter} every counter formats the
\* same filename; a save returns only when it created that file itself; when
\* the file is already there every create attempt meets it, the save fails
\* with AllocationExhausted after maxRetries attempts (maxAttempts in the
\* older allocator), and the existing file keeps its content.
C13_SingleNameNeverReplaced ==
    FixedName =>
        LET cfg  == param[1].cfg
            name == Name(cfg, cfg.counterStart)
        IN  /\ \A c \in Counters : Name(cfg, c) = name
            /\ (name \in DOMAIN files /\ creator[name] = <<0, 0>>) => files[name] = OldContent
            /\ \A k \in DOMAIN history[1] :
                  LET h == history[1][k]
                  IN  /\ h.ok => h.path = name /\ Created(1, h)
                      /\ (~h.ok /\ h.error.kind \notin {"EIO", "ENOENT"}) =>
                            /\ h.error.kind = "AllocationExhausted"
                            /\ Len(h.tried) = IF version = "scan" THEN MaxRetries
                                              ELSE MaxAttempts
                            /\ name \in DOMAIN files
                            /\ ~Created(1, h)

\* C13's case: the one filename was taken before the execution ran; the save
\* used up its retries on it and failed, and the file is as it was.
C13_ExhaustedOnExistingFile ==
    /\ FixedName /\ version = "scan" /\ faults = 0
    /\ LET name == Name(param[1].cfg, param[1].cfg.counterStart)
       IN  /\ name \in DOMAIN files /\ creator[name] = <<0, 0>>
           /\ files[name] = OldContent
           /\ Len(history[1]) > 0
           /\ history[1][1].error.kind = "AllocationExhausted"
           /\ Len(history[1][1].tried) = MaxRetries

\* The number of decimal digits of n.
NumDigits(n) == CHOOSE d \in 1..4 : (d = 1 \/ 10^(d - 1) <= n) /\ n < 10^d

\* str is the decimal representation of n, left-padded with "0" to pad
\* characters when it is shorter than that and as it is otherwise.
IsPadded(str, n, pad) ==
    LET digits == NumDigits(n)
        width  == IF pad > digits THEN pad ELSE digits
    IN  /\ Len(str) = width
        /\ \A i \in 1..width : IsDigit(str[i])
        /\ \A i \in 1..(width - digits) : str[i] = "0"
        /\ ParseInt(str) = n

\* The counters at which execution 1 has attempted a create so far.
TriedCounters ==
    {save[1].tried[j] : j \in DOMAIN save[1].tried}
    \cup UNION {{history[1][k].tried[j] : j \in DOMAIN history[1][k].tried} :
                   k \in DOMAIN history[1]}

\* C14: the counter string of every filename a save formats is the counter's
\* decimal representation, left-padded with "0" to the padding when shorter,
\* unpadded when the padding is 0, never truncated; the returned filename
\* holds it; and under a pattern with {counter} distinct counters have
\* distinct filenames.
C14_PaddedCounter ==
    LET cfg == param[1].cfg
        pad == cfg.counterPadding
    IN  /\ \A c \in TriedCounters :
              /\ IsPadded(padCounter(c, pad), c, pad)
              /\ pad = 0 => padCounter(c, pad) = NumToString(c)
              /\ (pad = 3 /\ c = 7) => padCounter(c, pad) = <<"0", "0", "7">>
              /\ HasCounterToken(cfg) =>
                    \A d \in Counters : d # c => Name(cfg, d) # Name(cfg, c)
        /\ \A k \in DOMAIN history[1] :
              LET h == history[1][k]
              IN  (h.ok /\ ~h.overwrite /\ HasCounterToken(cfg)) =>
                     IndexOf(h.path, padCounter(h.tried[Len(h.tried)], pad)) # 0

\* C14's case: with padding 3 the saves of counters 7 and 8 created r_007.p
\* and r_008.p.
C14_SevenPaddedToThree ==
    /\ param[1].cfg = CfgSeven /\ ~param[1].overwrite
    /\ <<"r", "_", "0", "0", "7", ".", "p">> \in DOMAIN files
    /\ creator[<<"r", "_", "0", "0", "7", ".", "p">>] = <<1, 0>>
    /\ <<"r", "_", "0", "0", "8", ".", "p">> \in DOMAIN files
    /\ creator[<<"r", "_", "0", "0", "8", ".", "p">>] = <<1, 1>>

\* The number of places at which t occurs in s.
Occurrences(s, t) ==
    Cardinality({i \in 1..(Len(s) - Len(t) + 1) : SubSeq(s, i, i + Len(t) - 1) = t})

\* One occurrence fewer, when there is one.
OneFewer(n) == IF n > 0 THEN n - 1 ELSE 0

\* The counter whose filename the save of entry h returned.
ReturnedCounter(h) ==
    IF h.overwrite THEN param[1].cfg.counterStart ELSE h.tried[Len(h.tried)]

\* C15: in the filename a save returns, only the first {base} and the first
\* {counter} of the pattern are replaced and every further occurrence is
\* still there as text; {base} is replaced first, so a base that reads
\* {counter} is itself replaced by the counter string.
C15_FirstOccurrenceOnly ==
    \A k \in DOMAIN history[1] :
        LET h   == history[1][k]
            cfg == param[1].cfg
            str == padCounter(ReturnedCounter(h), cfg.counterPadding)
        IN  h.ok =>
               /\ Occurrences(cfg.base, CounterToken) = 0 =>
                     /\ Occurrences(h.path, BaseToken) =
                           OneFewer(Occurrences(cfg.pattern, BaseToken))
                     /\ Occurrences(h.path, CounterToken) =
                           OneFewer(Occurrences(cfg.pattern, CounterToken))
               /\ cfg = CfgTwice =>
                     h.path = <<"r">> \o str \o <<"~">> \o BaseToken \o CounterToken \o <<".", "p">>
               /\ cfg = CfgTokenBase =>
                     h.path = str \o <<"_">> \o CounterToken \o <<".", "p">>

\* C15's case: under the pattern {base}{counter}~{base}{counter} two saves
\* created r01~{base}{counter}.p and r02~{base}{counter}.p.
C15_SecondTokensKept ==
    /\ param[1].cfg = CfgTwice /\ ~param[1].overwrite
    /\ Len(history[1]) = 2 /\ history[1][1].ok /\ history[1][2].ok
    /\ history[1][1].path =
          <<"r", "0", "1", "~">> \o BaseToken \o CounterToken \o <<".", "p">>
    /\ history[1][2].path =
          <<"r", "0", "2", "~">> \o BaseToken \o CounterToken \o <<".", "p">>
    /\ history[1][2].path \in DOMAIN files

\* The returned filename without the extension that was appended to it.
Stem(path, extension) ==
    IF extension = <<>> THEN path
    ELSE SubSeq(path, 1, Len(path) - Len(extension) - 1)

\* The text that follows the stem.
Suffix(path, extension) ==
    SubSeq(path, Len(Stem(path, extension)) + 1, Len(path))

\* C16: the filename a save returns is the composed name, in which every
\* forbidden character, from the base or from the pattern's text, is '-'
\* and which neither starts nor ends with whitespace, followed by '.' and
\* the extension when the extension is not empty and by nothing otherwise.
\* Nothing but the surrounding blanks is dropped (the patterns here hold
\* blanks at their ends only).
C16_SanitizedThenExtension ==
    \A k \in DOMAIN history[1] :
        LET h    == history[1][k]
            cfg  == param[1].cfg
            stem == Stem(h.path, cfg.extension)
            str  == padCounter(ReturnedCounter(h), cfg.counterPadding)
        IN  h.ok =>
               /\ Suffix(h.path, cfg.extension) =
                     IF cfg.extension = <<>> THEN <<>> ELSE <<".">> \o cfg.extension
               /\ \A i \in DOMAIN stem : stem[i] \notin ForbiddenChars
               /\ stem # <<>> => ~IsSpace(stem[1]) /\ ~IsSpace(stem[Len(stem)])
               /\ Len(stem) =
                     Len(ReplaceFirst(ReplaceFirst(cfg.pattern, BaseToken, SanitizedBase(cfg)),
                                      CounterToken, str))
                     - Occurrences(cfg.pattern, <<" ">>)
               /\ cfg.pattern = DirtyPattern => stem = <<"r", "-", "-">> \o str

\* C16's case: pattern " {base}:{counter} ", base "r<", no extension: two
\* saves created r--01 and r--02.
C16_DirtyNameCleaned ==
    /\ param[1].cfg = CfgDirty /\ ~param[1].overwrite
    /\ Len(history[1]) = 2 /\ history[1][1].ok /\ history[1][2].ok
    /\ history[1][1].path = <<"r", "-", "-", "0", "1">>
    /\ history[1][2].path = <<"r", "-", "-", "0", "2">>
    /\ DOMAIN files = {history[1][1].path, history[1][2].path}

\* ------------------------------------------------------------ the scan's set

\* Execution 1 is between its scan and its first create attempt: the folder
\* is as the scan listed it.
JustScanned ==
    /\ version = "scan" /\ pc[1] = "open"
    /\ save[1].scanned /\ save[1].tried = <<>>

\* The counters whose formatted filename is in the folder.
FormattedCounters(names, cfg) == {c \in Counters : Name(cfg, c) \in names}

\* C17: the set the scan returns is the set of the counters c whose
\* filename formatFilename(pattern, base, c, padding, extension) is in the
\* folder.
C17_ScanAgreesWithFormatter ==
    JustScanned => save[1].snapshot = FormattedCounters(DOMAIN files, param[1].cfg)

\* The paddings a file of the naming scheme may have been written with.
Paddings == 0..3

\* The filenames of a configuration's naming scheme: what the formatter
\* gives for its pattern, base and extension, with any counter and padding.
SchemeNames ==
    [cfg \in AllConfigs |->
        {formatFilename(cfg.pattern, SanitizedBase(cfg), c, pad, cfg.extension) :
            c \in Counters, pad \in Paddings}]

\* The counter discovery selects in a folder holding names ([found, counter]).
Selects(names, cfg) ==
    findNextAvailableCounter(CountersIn(names, cfg), cfg.counterStart, MaxAttempts)

\* C19: the counter a save selects is the one it would select in the folder
\* without the entries that are not of its naming scheme, and such entries
\* do not make the selection fail.
C19_ForeignEntriesIgnored ==
    LET cfg == param[1].cfg
        own == DOMAIN files \cap SchemeNames[cfg]
        n   == Len(history[1])
    IN  /\ JustScanned => save[1].counter = Selects(own, cfg).counter
        /\ (/\ version = "scan" /\ n > 0 /\ save[1].tried = <<>>
            /\ history[1][n].error = NoFreeCounter(MaxAttempts)) => ~Selects(own, cfg).found

\* ------------------------------------------------------------ failed writes

\* The save of entry h created its file and its payload write then failed.
FailedAfterCreate(h) == ~h.ok /\ ~h.overwrite /\ h.pending # NoError

\* C18: a save whose payload write failed after the atomic create ended with
\* the I/O error and with its handle closed; the file it created is still in
\* the folder, holding nothing or a proper prefix of the payload; no later
\* save returns that path, and every later scan that recognises the
\* formatter's names reports its counter as taken.
C18_FailedWriteLeavesFile ==
    \A k \in DOMAIN history[1] :
        LET h   == history[1][k]
            cfg == param[1].cfg
            c   == h.tried[Len(h.tried)]
            f   == Name(cfg, c)
        IN  FailedAfterCreate(h) =>
               /\ h.error.kind = "EIO"
               /\ h.handle = NoHandle
               /\ f \in DOMAIN files
               /\ creator[f] = <<1, h.item>>
               /\ files[f] \in Partial(Payload(1, h.item))
               /\ \A l \in DOMAIN history[1] :
                     l > k =>
                        /\ history[1][l].ok => history[1][l].path # f
                        /\ (version = "scan" /\ Recognised(cfg) /\ history[1][l].scanned) =>
                              c \in history[1][l].snapshot

\* C18's case: the first save created its file and its write failed after
\* one byte; the file is there with that byte, and the next save skipped its
\* counter and returned the following one.
C18_PartialFileSkipped ==
    /\ Len(history[1]) >= 2
    /\ FailedAfterCreate(history[1][1])
    /\ Len(files[Name(param[1].cfg, history[1][1].tried[1])]) = 1
    /\ history[1][2].ok
    /\ history[1][2].path = Name(param[1].cfg, history[1][1].tried[1] + 1)
    /\ files[history[1][2].path] = Payload(1, 1)

\* ---------------------------------------------------------------- the batch

\* The items of execution 1 in input order.
Batch == 0..(param[1].nItems - 1)

\* C20: execute saves its items in input order, one at a time. With
\* continueOnFail on it never aborts and its output holds one entry per
\* item processed, in input order, an error entry for each failed item.
\* With continueOnFail off the first failing item aborts the batch: the
\* items before it succeeded and their files are still there, and no later
\* item is saved.
C20_BatchInOrder ==
    LET par == param[1]
        n   == Len(history[1])
        out == returnData[1]
    IN  /\ \A k \in DOMAIN history[1] : history[1][k].item = k - 1
        /\ \A k \in DOMAIN out :
              /\ out[k].item = k - 1
              /\ out[k].ok = history[1][k].ok
              /\ out[k].error = history[1][k].error
              /\ out[k].path = history[1][k].path
        /\ item[1] = Len(out) /\ item[1] \in Batch \cup {par.nItems}
        /\ pc[1] = "returned" => Len(out) = par.nItems /\ n = par.nItems
        /\ pc[1] \notin {"returned", "aborted"} => n = item[1] /\ item[1] \in Batch
        /\ \A f \in DOMAIN creator :
              creator[f] # <<0, 0>> => creator[f][1] = 1 /\ creator[f][2] <= item[1]
        /\ par.continueOnFail => pc[1] # "aborted" /\ n = Len(out)
        /\ ~par.continueOnFail =>
              /\ \A k \in DOMAIN out : out[k].ok
              /\ pc[1] = "aborted" <=> (n > 0 /\ ~history[1][n].ok)
              /\ pc[1] = "aborted" =>
                    /\ n = Len(out) + 1 /\ item[1] = n - 1
                    /\ \A k \in 1..(n - 1) :
                          /\ history[1][k].path \in DOMAIN files
                          /\ ~par.overwrite =>
                                files[history[1][k].path] = Payload(1, k - 1)

\* C20's case: with continueOnFail off, two items were saved, the third
\* failed and the batch was aborted: the two files are there and nothing
\* was created for the third and fourth item.
C20_AbortedAtThirdItem ==
    /\ ~param[1].continueOnFail /\ ~param[1].overwrite /\ InitiallyEmpty
    /\ pc[1] = "aborted" /\ Len(history[1]) = 3 /\ Len(returnData[1]) = 2
    /\ 3 < param[1].nItems
    /\ Cardinality(DOMAIN files) = 2
    /\ \A k \in 1..2 : files[history[1][k].path] = Payload(1, k - 1)

\* -------------------------------------------------------------- termination

\* One step of execution p among concurrent non-overwrite saves.
StepRace(p) == Scan(p) \/ Open(p) \/ Write(p) \/ Close(p)

\* Concurrent non-overwrite saves in which every filesystem call an
\* execution awaits is eventually answered.
SpecRaceFair == SpecRace /\ \A p \in Execs : WF_vars(StepRace(p))

\* Execution p has returned its output or thrown.
Ended(p) == pc[p] \in {"returned", "aborted"}

\* The work one save has done so far is within its bounds: the candidate is
\* fewer than maxAttempts above counterStart, and no more create attempts
\* were made than the creation loop allows (maxRetries; maxAttempts in the
\* older allocator).
WithinBounds(p, s) ==
    /\ s.counter >= param[p].cfg.counterStart
    /\ s.counter - param[p].cfg.counterStart < MaxAttempts
    /\ Len(s.tried) <= IF version = "scan" THEN MaxRetries ELSE MaxAttempts

\* C21: under any interleaving of concurrent writers every save stays
\* within its bounds (fewer than maxAttempts cursor advances, at most
\* maxRetries create attempts) and comes to an end, returned or failed.
C21_Terminates ==
    /\ [](\A p \in Execs :
             /\ WithinBounds(p, [counter |-> save[p].counter, tried |-> save[p].tried])
             /\ \A k \in DOMAIN history[p] :
                   history[p][k].error # NoFreeCounter(MaxAttempts) =>
                      WithinBounds(p, [counter |-> history[p][k].candidate,
                                       tried |-> history[p][k].tried]))
    /\ \A p \in Execs : <>Ended(p)

\* C21's case: every execution has ended, one call having returned after a
\* retry and another having failed after other writers took every counter
\* it tried.
C21_EveryCallEnded ==
    /\ \A p \in Execs : Ended(p) /\ Len(history[p]) = 1
    /\ \E p, q \in Execs :
          /\ history[p][1].ok /\ Len(history[p][1].tried) > 1
          /\ history[q][1].error.kind = "AllocationExhausted"
          /\ history[q][1].tried # <<>>

\* ---------------------------------------------------------- counters in use

\* The executions that save all have the configuration of execution 1, whose
\* pattern holds {counter}.
OneConfig ==
    /\ HasCounterToken(param[1].cfg)
    /\ \A p \in Calls : param[p].cfg = param[1].cfg /\ ~param[p].overwrite

\* The counters whose file, as the shared configuration names it, exists.
OccupiedCounters == FormattedCounters(DOMAIN files, param[1].cfg)

\* C22: from an empty folder, with non-overwrite writers of one
\* configuration, the occupied counters are in every state counterStart ..
\* counterStart + k - 1 for some k >= 0, whatever the interleaving and
\* whichever calls fail.
C22_NoGaps ==
    (InitiallyEmpty /\ OneConfig) =>
        \E k \in 0..Cardinality(DOMAIN files) :
            OccupiedCounters =
                param[1].cfg.counterStart..(param[1].cfg.counterStart + k - 1)

\* C22's case: three concurrent calls scanned the empty folder; one of them
\* failed at its payload write, another used up its retries, and the
\* counters in use are counterStart and counterStart + 1.
C22_NoGapAfterFailures ==
    /\ InitiallyEmpty /\ OneConfig /\ version = "scan"
    /\ Cardinality(Calls) = 3 /\ AllDone
    /\ \A p \in Calls : history[p][1].scanned /\ history[p][1].snapshot = {}
    /\ \E p \in Calls : ~history[p][1].ok /\ history[p][1].pending # NoError
    /\ \E p \in Calls : history[p][1].error.kind = "AllocationExhausted"
    /\ OccupiedCounters = param[1].cfg.counterStart..(param[1].cfg.counterStart + 1)

\* The largest counter a save can create at: the last candidate discovery
\* can select, plus the retries after the first create attempt.
HighestCounter(cfg) == cfg.counterStart + (MaxAttempts - 1) + (MaxRetries - 1)

\* The counters tried by a call with candidate cand are from the candidate
\* on, and the candidate and they lie between counterStart and the highest
\* counter.
TriedInRange(cfg, cand, tried) ==
    /\ cfg.counterStart <= cand
    /\ \A j \in DOMAIN tried :
          /\ cfg.counterStart <= tried[j] /\ tried[j] <= HighestCounter(cfg)
          /\ version = "scan" => cand <= tried[j]

\* C23: every counter at which a non-overwrite save attempts a create, and
\* so every counter of a file it creates, lies between counterStart and
\* counterStart + (maxAttempts - 1) + (maxRetries - 1) and is not below the
\* candidate its discovery selected; every file a save created is the file
\* of a counter it tried.
C23_CreatedInRange ==
    /\ \A p \in Execs :
          /\ TriedInRange(param[p].cfg, save[p].counter, save[p].tried)
          /\ \A k \in DOMAIN history[p] :
                history[p][k].error # NoFreeCounter(MaxAttempts) =>
                   TriedInRange(param[p].cfg, history[p][k].candidate, history[p][k].tried)
    /\ \A f \in DOMAIN creator :
          creator[f] # <<0, 0>> =>
             LET p     == creator[f][1]
                 tried == IF creator[f][2] = item[p] /\ ~Ended(p) THEN save[p].tried
                          ELSE history[p][creator[f][2] + 1].tried
             IN  tried # <<>> /\ f = Name(param[p].cfg, tried[Len(tried)])

\* C23's case: a call whose discovery selected the last candidate it can
\* lost its first create race and created its file at the highest counter.
C23_HighestCounterUsed ==
    /\ version = "scan"
    /\ \E p \in Execs : \E k \in DOMAIN history[p] :
          LET h   == history[p][k]
              cfg == param[p].cfg
          IN  /\ h.ok
              /\ h.candidate = cfg.counterStart + MaxAttempts - 1
              /\ h.tried[Len(h.tried)] = HighestCounter(cfg)
              /\ h.path = Name(cfg, HighestCounter(cfg))

\* The older allocator run alone on a folder holding the given names: try
\* the counters from counterStart upward, each with an exclusive create,
\* until one succeeds or maxAttempts names were taken.
RECURSIVE ProbeLoop(_, _, _, _)
ProbeLoop(names, cfg, counter, attempts) ==
    IF attempts >= MaxAttempts
    THEN [ok |-> FALSE, path |-> <<>>, names |-> names]
    ELSE IF Name(cfg, counter) \in names
         THEN ProbeLoop(names, cfg, counter + 1, attempts + 1)
         ELSE [ok |-> TRUE, path |-> Name(cfg, counter),
               names |-> names \cup {Name(cfg, counter)}]

\* The files in the folder when execution 1 starts its save of item k, and
\* the names the configuration's formatter produces.
Before(k) ==
    {f \in DOMAIN creator : creator[f] = <<0, 0>> \/ (creator[f][1] = 1 /\ creator[f][2] < k)}

OwnNames(cfg) == {Name(cfg, c) : c \in Counters}

\* A save of execution 1 with no concurrent writer and no I/O failure, on a
\* folder holding only files named by its own configuration.
SingleWriterSave(h) ==
    /\ ~h.overwrite /\ HasCounterToken(param[1].cfg)
    /\ faults = 0 /\ dirExists
    /\ Before(h.item) \subseteq OwnNames(param[1].cfg)

\* The save's outcome is the older loop's outcome on the same folder.
AsProbeLoop(h) ==
    LET r == ProbeLoop(Before(h.item), param[1].cfg, param[1].cfg.counterStart, 0)
    IN  /\ h.ok = r.ok
        /\ h.path = r.path
        /\ Before(h.item + 1) = r.names

\* C24: for a single writer on a folder of its own files, a non-overwrite
\* save by either allocator returns the path the probe-only loop returns and
\* leaves the same folder, and fails when that loop fails.
C24_AllocatorsEquivalent ==
    \A k \in DOMAIN history[1] :
        SingleWriterSave(history[1][k]) => AsProbeLoop(history[1][k])
====
